---- MODULE Spec2Model ----
(***************************************************************************)
(* A model of oscar/forms/widgets.py: the format-token translation         *)
(* helpers, the date/time picker widgets, AdvancedSelect and the           *)
(* remote-select widgets.  Text is a sequence of one-character strings.    *)
(***************************************************************************)
EXTENDS Integers, Sequences, FiniteSets, TLC

VARIABLES
    format,     \* the format string handed to a translation helper / a picker
    call,       \* the helper or widget method that ran last ("none" at start)
    args,       \* the other arguments of that call
    result,     \* what that call returned or raised
    widget,     \* the widget built last (NoWidget before, or when it raised)
    attrs,      \* the caller's attrs dictionary, the object handed to widgets
    original    \* the value the caller's attrs dictionary was created with

vars == <<format, call, args, result, widget, attrs, original>>

\* ------------------------------------------------------------------ bounds

\* The longest format string, counted in pieces (a token or a literal).
MaxLen == 4

\* The longest format string handed to a picker widget, in pieces.
MaxPickerLen == 3

\* The longest list of values handed to a MultipleRemoteSelect.
MaxList == 2

\* How many WYSIWYGTextArea widgets are built from one attrs dictionary.
MaxBuilds == 2

\* The most values in the disabled_values of an AdvancedSelect.
MaxDisabled == 2

\* ------------------------------------------------------------ text helpers

\* What args and result hold before any call.
Unset == [unset |-> TRUE]

\* Python values: None, an int, a text, a list of values.
PyNone == [t |-> "none", n |-> 0, s |-> <<>>, l |-> <<>>]
PyInt(n) == [t |-> "int", n |-> n, s |-> <<>>, l |-> <<>>]
PyStr(s) == [t |-> "str", n |-> 0, s |-> s, l |-> <<>>]
PyList(l) == [t |-> "list", n |-> 0, s |-> <<>>, l |-> l]
PyTrue == [t |-> "bool", n |-> 1, s |-> <<>>, l |-> <<>>]

\* bool(v): None, 0, the empty text and the empty list are falsy.
bool(v) ==
    CASE v.t = "none" -> FALSE
      [] v.t \in {"int", "bool"} -> v.n # 0
      [] v.t = "str" -> v.s # <<>>
      [] v.t = "list" -> v.l # <<>>

\* No widget object.
NoWidget == [cls |-> "none"]

\* The empty dictionary; a dictionary is a function on its keys.
EmptyDict == [k \in {} |-> Unset]

\* str.split() and str.strip() cut at whitespace.
IsSpace(c) == c = " "

RECURSIVE lstrip(_)
lstrip(s) ==
    IF s # <<>> /\ IsSpace(Head(s)) THEN lstrip(Tail(s)) ELSE s

RECURSIVE rstrip(_)
rstrip(s) ==
    IF s # <<>> /\ IsSpace(s[Len(s)])
    THEN rstrip(SubSeq(s, 1, Len(s) - 1))
    ELSE s

\* str.strip(): leading and trailing whitespace removed.
strip(s) == rstrip(lstrip(s))

\* The longest prefix of s without whitespace.
RECURSIVE word(_)
word(s) ==
    IF s = <<>> \/ IsSpace(Head(s)) THEN <<>> ELSE <<Head(s)>> \o word(Tail(s))

\* str.split(): the whitespace-separated fields of s, none of them empty.
RECURSIVE split(_)
split(s) ==
    LET t == lstrip(s) IN
    IF t = <<>> THEN <<>>
    ELSE LET w == word(t) IN <<w>> \o split(SubSeq(t, Len(w) + 1, Len(t)))

StartsWith(s, p) == Len(s) >= Len(p) /\ SubSeq(s, 1, Len(p)) = p

\* str.replace(search, rep): every non-overlapping occurrence, left to right,
\* in one pass over the original text.
RECURSIVE replace(_, _, _)
replace(s, search, rep) ==
    IF s = <<>> THEN <<>>
    ELSE IF StartsWith(s, search)
         THEN rep \o replace(SubSeq(s, Len(search) + 1, Len(s)), search, rep)
         ELSE <<Head(s)>> \o replace(Tail(s), search, rep)

\* Whether text p occurs in s.
Contains(s, p) == \E i \in 1..(Len(s) - Len(p) + 1) : SubSeq(s, i, i + Len(p) - 1) = p

\* ------------------------------------------------------------ token tables

\* The replacements dict of datetime_format_to_js_datetime_format, as
\* <<search, replace>> pairs in the order the literal lists them.
datetime_replacements ==
    << << <<"%", "Y">>, <<"y", "y", "y", "y">> >>,
       << <<"%", "y">>, <<"y", "y">> >>,
       << <<"%", "m">>, <<"m", "m">> >>,
       << <<"%", "d">>, <<"d", "d">> >>,
       << <<"%", "H">>, <<"h", "h">> >>,
       << <<"%", "I">>, <<"H", "H">> >>,
       << <<"%", "M">>, <<"i", "i">> >>,
       << <<"%", "S">>, <<"s", "s">> >> >>

\* The replacements dict of datetime_format_to_js_time_format.
time_replacements ==
    << << <<"%", "H">>, <<"h", "h">> >>,
       << <<"%", "I">>, <<"H", "H">> >>,
       << <<"%", "M">>, <<"i", "i">> >>,
       << <<"%", "S">>, <<"s", "s">> >> >>

\* The replacements dict of datetime_format_to_js_input_mask.
mask_replacements ==
    << << <<"%", "Y">>, <<"y">> >>,
       << <<"%", "y">>, <<"9", "9">> >>,
       << <<"%", "m">>, <<"m">> >>,
       << <<"%", "d">>, <<"d">> >>,
       << <<"%", "H">>, <<"h">> >>,
       << <<"%", "I">>, <<"h">> >>,
       << <<"%", "M">>, <<"s">> >>,
       << <<"%", "S">>, <<"s">> >> >>

Reverse(s) == [i \in 1..Len(s) |-> s[Len(s) + 1 - i]]

\* Swap the entries at positions i and j of s.
Swap(s, i, j) ==
    [k \in 1..Len(s) |-> IF k = i THEN s[j] ELSE IF k = j THEN s[i] ELSE s[k]]

\* dict.items() of a replacements dict.  The interpreters this code runs on
\* (it is written against six: Python 2.7 and 3.4+) do not fix the
\* iteration order of a dict: before 3.7 it follows the keys' hashes, which
\* change from process to process.  The orders drawn here are the literal's
\* own, its reverse, and the literal's with two neighbours swapped; they
\* put each pair of keys one of which rewrites to the other's second
\* character (%Y/%y, %I/%H) in both relative orders.
items(replacements) ==
    { replacements, Reverse(replacements), Swap(replacements, 1, 2),
      Swap(replacements, Len(replacements) - 3, Len(replacements) - 2) }

\* for search, replace in <order>: converted = converted.replace(search, replace)
RECURSIVE replace_each(_, _)
replace_each(converted, order) ==
    IF order = <<>> THEN converted
    ELSE replace_each(replace(converted, Head(order)[1], Head(order)[2]),
                      Tail(order))

\* dict[key] for a key the dict holds.
Lookup(dict, key) ==
    LET i == CHOOSE j \in 1..Len(dict) : dict[j][1] = key IN dict[i][2]

HasKey(dict, key) == \E j \in 1..Len(dict) : dict[j][1] = key

\* multiple_replace: one regular expression, the alternation of the keys,
\* substituted in a single left-to-right pass; each match is looked up in
\* the dict.  The keys are two characters each and none is a prefix of
\* another, so the order of the alternation does not matter.
RECURSIVE multiple_replace(_, _)
multiple_replace(dict, text) ==
    IF text = <<>> THEN <<>>
    ELSE IF Len(text) >= 2 /\ HasKey(dict, SubSeq(text, 1, 2))
         THEN Lookup(dict, SubSeq(text, 1, 2))
              \o multiple_replace(dict, SubSeq(text, 3, Len(text)))
         ELSE <<Head(text)>> \o multiple_replace(dict, Tail(text))

\* ------------------------------------------------- the translation helpers

Returned(v) == [exc |-> "", val |-> v]
Raised(e) == [exc |-> e, val |-> <<>>]

\* datetime_format_to_js_datetime_format(format), with the order in which
\* replacements.items() yields the table.
datetime_format_to_js_datetime_format(fmt, order) ==
    Returned(strip(replace_each(fmt, order)))

\* datetime_format_to_js_date_format(format): format.split()[0] raises
\* IndexError when the format has no field.
datetime_format_to_js_date_format(fmt, order) ==
    IF Len(split(fmt)) < 1 THEN Raised("IndexError")
    ELSE datetime_format_to_js_datetime_format(split(fmt)[1], order)

\* The text datetime_format_to_js_time_format translates: format.split()[1],
\* or the format itself when that raises IndexError.
time_part(fmt) == IF Len(split(fmt)) >= 2 THEN split(fmt)[2] ELSE fmt

\* datetime_format_to_js_time_format(format)
datetime_format_to_js_time_format(fmt, order) ==
    Returned(strip(replace_each(time_part(fmt), order)))

\* datetime_format_to_js_input_mask(format)
datetime_format_to_js_input_mask(fmt) ==
    Returned(strip(multiple_replace(mask_replacements, fmt)))

\* --------------------------------------------------------------- inputs

Tokens == { datetime_replacements[i][1] : i \in 1..Len(datetime_replacements) }
DateTokens == { datetime_replacements[i][1] : i \in 1..4 }
TimeTokens == { time_replacements[i][1] : i \in 1..Len(time_replacements) }

\* The literal characters format strings are built from besides the tokens.
Literals == { <<"%">>, <<" ">>, <<":">>, <<"-">>, <<"S">> }

Pieces == Tokens \cup Literals

RECURSIVE Cat(_)
Cat(ps) == IF ps = <<>> THEN <<>> ELSE Head(ps) \o Cat(Tail(ps))

\* Every format string of at most n pieces.
FormatsUpTo(n) == { Cat(ps) : ps \in UNION { [1..k -> Pieces] : k \in 0..n } }

\* ------------------------------------------------- the helpers, as calls

\* What a call left behind: the exception it raised ("" for none), the text
\* it returned, and the order in which its replacements dict was iterated.
Outcome(r, order) == [exc |-> r.exc, val |-> r.val, items |-> order]

\* The part of the state the helpers do not touch.
NoWidgets ==
    /\ args = Unset
    /\ widget = NoWidget
    /\ attrs = EmptyDict
    /\ original = EmptyDict

InitFormat ==
    /\ format \in FormatsUpTo(MaxLen)
    /\ call = "none"
    /\ result = Unset
    /\ NoWidgets

\* The helpers are pure functions of the format: a behaviour draws a format
\* and applies one helper to it.
CallDateFormat ==
    /\ call = "none"
    /\ \E order \in items(datetime_replacements) :
          result' = Outcome(datetime_format_to_js_date_format(format, order), order)
    /\ call' = "date"
    /\ UNCHANGED <<format, args, widget, attrs, original>>

CallTimeFormat ==
    /\ call = "none"
    /\ \E order \in items(time_replacements) :
          result' = Outcome(datetime_format_to_js_time_format(format, order), order)
    /\ call' = "time"
    /\ UNCHANGED <<format, args, widget, attrs, original>>

CallDateTimeFormat ==
    /\ call = "none"
    /\ \E order \in items(datetime_replacements) :
          result' = Outcome(datetime_format_to_js_datetime_format(format, order), order)
    /\ call' = "datetime"
    /\ UNCHANGED <<format, args, widget, attrs, original>>

CallInputMask ==
    /\ call = "none"
    /\ result' = Outcome(datetime_format_to_js_input_mask(format), <<>>)
    /\ call' = "mask"
    /\ UNCHANGED <<format, args, widget, attrs, original>>

NextFormat ==
    \/ CallDateFormat
    \/ CallTimeFormat
    \/ CallDateTimeFormat
    \/ CallInputMask

SpecFormat == InitFormat /\ [][NextFormat]_vars

\* ------------------------------------------- claims about the helpers

\* The one-to-one translation of a text under a table: the text is read
\* left to right, each token of the table is replaced by the table's entry
\* for it, and every other character is copied.
RECURSIVE Substitution(_, _)
Substitution(table, text) ==
    IF text = <<>> THEN <<>>
    ELSE IF \E i \in 1..Len(table) : StartsWith(text, table[i][1])
         THEN LET i == CHOOSE j \in 1..Len(table) : StartsWith(text, table[j][1])
              IN table[i][2]
                 \o Substitution(table, SubSeq(text, Len(table[i][1]) + 1, Len(text)))
         ELSE <<Head(text)>> \o Substitution(table, Tail(text))

\* C1: datetime_format_to_js_datetime_format and datetime_format_to_js_input_mask
\* replace every recognized token by its table's client-side token and pass
\* all other text of the input through unchanged, in the same order.
C1_TokensReplacedRestUnchanged ==
    /\ call = "datetime" =>
          /\ result.exc = ""
          /\ result.val = Substitution(datetime_replacements, format)
    /\ call = "mask" =>
          /\ result.exc = ""
          /\ result.val = Substitution(mask_replacements, format)

\* C4: the four translation helpers are total: whatever the format string
\* (malformed, empty, whitespace only), each returns a string and never raises.
C4_HelpersNeverRaise ==
    call \in {"date", "time", "datetime", "mask"} => result.exc = ""

\* A text without whitespace and with at least one character.
IsField(s) == s # <<>> /\ \A i \in 1..Len(s) : ~IsSpace(s[i])

HasTokenOf(s, tokens) == \E t \in tokens : Contains(s, t)

\* C9: the date helper translates the first whitespace-separated field with
\* the datetime table; the time helper translates the second field (the
\* whole format when there is only one), replacing only the time tokens and
\* leaving everything else as it is; and for a format "D T", D without time
\* tokens and T without date tokens, the date result, a space and the time
\* result make up the datetime result.
C9_DateAndTimeParts ==
    /\ (call = "date" /\ Len(split(format)) >= 1) =>
          result.val =
             datetime_format_to_js_datetime_format(split(format)[1], result.items).val
    /\ call = "time" =>
          result.val =
             strip(Substitution(time_replacements,
                      IF Len(split(format)) >= 2 THEN split(format)[2] ELSE format))
    /\ (/\ call = "datetime"
        /\ \E k \in 2..(Len(format) - 1) :
              /\ format[k] = " "
              /\ IsField(SubSeq(format, 1, k - 1))
              /\ IsField(SubSeq(format, k + 1, Len(format)))
              /\ ~HasTokenOf(SubSeq(format, 1, k - 1), TimeTokens)
              /\ ~HasTokenOf(SubSeq(format, k + 1, Len(format)), DateTokens)) =>
          \A order \in items(time_replacements) :
             result.val =
                datetime_format_to_js_date_format(format, result.items).val
                \o <<" ">>
                \o datetime_format_to_js_time_format(format, order).val

\* C10: the replacement loops are a one-to-one token mapping: the result does
\* not depend on the order in which the table's entries are applied, and it
\* is the result of one simultaneous left-to-right substitution of the table
\* (stripped, as the helpers strip): no replacement's output is rewritten by
\* a later replacement.
C10_LoopIsOneToOne ==
    /\ call = "datetime" =>
          /\ \A order \in items(datetime_replacements) :
                datetime_format_to_js_datetime_format(format, order).val = result.val
          /\ result.val = strip(Substitution(datetime_replacements, format))
    /\ call = "time" =>
          /\ \A order \in items(time_replacements) :
                datetime_format_to_js_time_format(format, order).val = result.val
          /\ result.val = strip(Substitution(time_replacements, time_part(format)))


\* ------------------------------------------------------- the picker widgets

\* re.sub(':?%S', '', text): one pass, left to right; at each place the
\* pattern takes the colon when a colon and %S follow, else a bare %S.
RECURSIVE re_sub_seconds(_)
re_sub_seconds(text) ==
    IF text = <<>> THEN <<>>
    ELSE IF StartsWith(text, <<":", "%", "S">>)
         THEN re_sub_seconds(SubSeq(text, 4, Len(text)))
         ELSE IF StartsWith(text, <<"%", "S">>)
              THEN re_sub_seconds(SubSeq(text, 3, Len(text)))
              ELSE <<Head(text)>> \o re_sub_seconds(Tail(text))

\* DateTimePickerInput.__init__(format=fmt, include_seconds=...): the base
\* class stores the format, None for a missing or empty one; the seconds
\* are then cut out of a stored, non-empty format.
DateTimePickerInput_init(fmt, include_seconds) ==
    LET stored == IF bool(fmt) THEN fmt ELSE PyNone IN
    [ cls |-> "DateTimePickerInput",
      format |-> IF ~include_seconds /\ bool(stored)
                 THEN PyStr(re_sub_seconds(stored.s))
                 ELSE stored ]

\* formats.get_format('DATETIME_INPUT_FORMATS')[0]: the first format of the
\* active locale; the framework's global default is drawn.
locale_format ==
    <<"%", "Y", "-", "%", "m", "-", "%", "d", " ",
      "%", "H", ":", "%", "M", ":", "%", "S">>

\* DateTimeWidgetMixin.get_format
get_format(self) == IF bool(self.format) THEN self.format.s ELSE locale_format

\* DateTimeWidgetMixin.build_attrs: the data-inputmask attribute it adds.
build_attrs(self) ==
    [k \in {"data-inputmask"} |->
        <<"'", "m", "a", "s", "k", "'", ":", " ", "'">>
        \o datetime_format_to_js_input_mask(get_format(self)).val
        \o <<"'">>]

\* DateTimePickerInput.get_context: the div_attrs it adds.
get_context(self, order) ==
    [k \in {"data-datetimeFormat"} |->
        datetime_format_to_js_datetime_format(get_format(self), order).val]

InitPicker ==
    /\ \E given \in BOOLEAN :
          /\ args = [format_given |-> given, include_seconds |-> FALSE]
          /\ format \in IF given THEN FormatsUpTo(MaxPickerLen) ELSE {<<>>}
    /\ call = "none"
    /\ result = Unset
    /\ widget = NoWidget
    /\ attrs = EmptyDict
    /\ original = EmptyDict

NewDateTimePickerInput ==
    /\ widget = NoWidget
    /\ \E include_seconds \in BOOLEAN :
          /\ args' = [args EXCEPT !.include_seconds = include_seconds]
          /\ widget' = DateTimePickerInput_init(
                          IF args.format_given THEN PyStr(format) ELSE PyNone,
                          include_seconds)
    /\ call' = "__init__"
    /\ result' = Unset
    /\ UNCHANGED <<format, attrs, original>>

PickerGetFormat ==
    /\ widget.cls = "DateTimePickerInput"
    /\ call' = "get_format"
    /\ result' = Returned(get_format(widget))
    /\ UNCHANGED <<format, args, widget, attrs, original>>

PickerBuildAttrs ==
    /\ widget.cls = "DateTimePickerInput"
    /\ call' = "build_attrs"
    /\ result' = Returned(build_attrs(widget))
    /\ UNCHANGED <<format, args, widget, attrs, original>>

PickerGetContext ==
    /\ widget.cls = "DateTimePickerInput"
    /\ call' = "get_context"
    /\ \E order \in items(datetime_replacements) :
          result' = Returned(get_context(widget, order))
    /\ UNCHANGED <<format, args, widget, attrs, original>>

NextPicker ==
    \/ NewDateTimePickerInput
    \/ PickerGetFormat
    \/ PickerBuildAttrs
    \/ PickerGetContext

SpecPicker == InitPicker /\ [][NextPicker]_vars

\* C6: DateTimePickerInput removes seconds by default: built from an explicit
\* format without include_seconds=True, its stored format holds no seconds
\* token %S; with include_seconds=True the stored format is the given one;
\* with no explicit format the stored format stays unset and get_format
\* yields the locale's format as it is.
C6_SecondsRemovedByDefault ==
    widget.cls = "DateTimePickerInput" =>
       /\ (args.format_given /\ format # <<>> /\ ~args.include_seconds) =>
             ~Contains(widget.format.s, <<"%", "S">>)
       /\ (args.format_given /\ format # <<>> /\ args.include_seconds) =>
             widget.format = PyStr(format)
       /\ ~args.format_given =>
             /\ widget.format = PyNone
             /\ call = "get_format" => result.val = locale_format


\* ------------------------------------------------ dictionaries and values

\* dict.update: the entries of e added to d, replacing those with its keys.
Update(d, e) ==
    [k \in DOMAIN d \cup DOMAIN e |-> IF k \in DOMAIN e THEN e[k] ELSE d[k]]

Digits == <<"0", "1", "2", "3", "4", "5", "6", "7", "8", "9">>

\* The decimal text of a natural number.
RECURSIVE decimal(_)
decimal(n) ==
    IF n < 10 THEN <<Digits[n + 1]>>
    ELSE decimal(n \div 10) \o <<Digits[(n % 10) + 1]>>

\* six.text_type(v) / force_text(v) of None, an int or a text.
text_type(v) ==
    CASE v.t = "str" -> v.s
      [] v.t = "int" -> decimal(v.n)
      [] v.t = "none" -> <<"N", "o", "n", "e">>

\* filter(bool, values): the truthy entries, in order.
RECURSIVE filter_bool(_)
filter_bool(values) ==
    IF values = <<>> THEN <<>>
    ELSE IF bool(Head(values))
         THEN <<Head(values)>> \o filter_bool(Tail(values))
         ELSE filter_bool(Tail(values))

\* ','.join(texts)
RECURSIVE join(_)
join(texts) ==
    IF texts = <<>> THEN <<>>
    ELSE IF Len(texts) = 1 THEN Head(texts)
    ELSE Head(texts) \o <<",">> \o join(Tail(texts))

\* The longest prefix of text without a comma.
RECURSIVE up_to_comma(_)
up_to_comma(text) ==
    IF text = <<>> \/ Head(text) = "," THEN <<>>
    ELSE <<Head(text)>> \o up_to_comma(Tail(text))

\* text.split(','): the parts between the commas, empty parts included.
RECURSIVE split_comma(_)
split_comma(text) ==
    LET part == up_to_comma(text) IN
    IF Len(part) = Len(text) THEN <<part>>
    ELSE <<part>> \o split_comma(SubSeq(text, Len(part) + 2, Len(text)))

\* ------------------------------------------ ImageInput and WYSIWYGTextArea

image_accept == <<"i", "m", "a", "g", "e", "/", "*">>
wysiwyg_class == <<" ", "w", "y", "s", "i", "w", "y", "g">>

\* ImageInput.__init__(attrs): `given` tells whether the caller hands its
\* dictionary d (else None).  Yields the widget and the caller's dictionary
\* as the call leaves it; the base class keeps a copy of what it is given.
ImageInput_init(given, d) ==
    LET used == given /\ d # EmptyDict
        own == Update(IF used THEN d ELSE EmptyDict,
                      [k \in {"accept"} |-> PyStr(image_accept)])
    IN [ exc |-> "",
         widget |-> [cls |-> "ImageInput", attrs |-> own],
         attrs |-> IF used THEN own ELSE d ]

\* The default attributes of the base Textarea.
textarea_defaults ==
    [k \in {"cols", "rows"} |->
        IF k = "cols" THEN PyStr(<<"4", "0">>) ELSE PyStr(<<"1", "0">>)]

\* WYSIWYGTextArea.__init__(attrs=d), or with no attrs keyword.
WYSIWYGTextArea_init(given, d) ==
    LET a0 == IF given THEN d ELSE EmptyDict
        a1 == IF "class" \in DOMAIN a0 THEN a0
              ELSE Update(a0, [k \in {"class"} |-> PyStr(<<>>)])
        a2 == [a1 EXCEPT !["class"] = PyStr(@.s \o wysiwyg_class)]
    IN [ exc |-> "",
         widget |-> [cls |-> "WYSIWYGTextArea",
                     attrs |-> Update(textarea_defaults, a2)],
         attrs |-> IF given THEN a2 ELSE d ]

\* --------------------------------------------------- the remote selects

RemoteClasses == {"RemoteSelect", "MultipleRemoteSelect"}

\* RemoteSelect.__init__ for class cls whose lookup_url class attribute is
\* class_url, called with lookup_url=kw_url when kw_given, and with
\* attrs=d when attrs_given.
RemoteSelect_init_unchecked(cls, class_url, kw_given, kw_url, attrs_given, d) ==
    [ exc |-> "",
      widget |-> [ cls |-> cls,
                   lookup_url |-> IF kw_given THEN kw_url ELSE class_url,
                   is_required |-> FALSE,
                   attrs |-> IF attrs_given THEN d ELSE EmptyDict ],
      attrs |-> d ]

RemoteSelect_init(cls, class_url, kw_given, kw_url, attrs_given, d) ==
    LET lookup_url == IF kw_given THEN kw_url ELSE class_url IN
    IF lookup_url = PyNone
    THEN [exc |-> "ValueError", widget |-> NoWidget, attrs |-> d]
    ELSE [ exc |-> "",
           widget |-> [ cls |-> cls,
                        lookup_url |-> lookup_url,
                        is_required |-> FALSE,
                        attrs |-> IF attrs_given THEN d ELSE EmptyDict ],
           attrs |-> d ]

is_multiple(self) == self.cls = "MultipleRemoteSelect"

\* RemoteSelect.format_value and MultipleRemoteSelect.format_value
format_value(self, value) ==
    IF is_multiple(self)
    THEN IF bool(value)
         THEN join([i \in 1..Len(filter_bool(value.l)) |->
                       text_type(filter_bool(value.l)[i])])
         ELSE <<>>
    ELSE IF bool(value) THEN text_type(value) ELSE <<>>

\* RemoteSelect.value_from_datadict and MultipleRemoteSelect's: `posted`
\* tells whether data holds the name, `text` is data[name].
value_from_datadict(self, posted, text) ==
    IF is_multiple(self)
    THEN IF ~posted THEN PyList(<<>>)
         ELSE PyList(filter_bool([i \in 1..Len(split_comma(text)) |->
                                     PyStr(split_comma(text)[i])]))
    ELSE IF ~posted THEN PyNone ELSE PyStr(text)

hidden == <<"h", "i", "d", "d", "e", "n">>
multiple == <<"m", "u", "l", "t", "i", "p", "l", "e">>
required == <<"r", "e", "q", "u", "i", "r", "e", "d">>

RenderKeys ==
    {"type", "name", "data-ajax-url", "data-multiple", "value", "data-required"}

\* The dictionary RemoteSelect.render updates the attributes with.
render_attrs(self, name, value) ==
    [k \in RenderKeys |->
        CASE k = "type" -> PyStr(hidden)
          [] k = "name" -> name
          [] k = "data-ajax-url" -> self.lookup_url
          [] k = "data-multiple" ->
                PyStr(IF is_multiple(self) THEN multiple ELSE <<>>)
          [] k = "value" -> PyStr(format_value(self, value))
          [] k = "data-required" ->
                PyStr(IF self.is_required THEN required ELSE <<>>)]

\* A render that keeps the caller's value for a key the caller supplies.
render_setdefault(self, name, value, attrs_given, d) ==
    Update(render_attrs(self, name, value),
           IF attrs_given THEN d ELSE EmptyDict)

\* RemoteSelect.render(name, value, attrs): the attributes of the <input>
\* it emits, built on a copy of the caller's dictionary.
render(self, name, value, attrs_given, d) ==
    Update(IF attrs_given THEN d ELSE EmptyDict,
           render_attrs(self, name, value))

\* ------------------------------------------------------------ inputs

\* The dictionaries a caller builds: a class and a type attribute, or not.
CallerKeys == {"class", "type"}

CallerValue(k) ==
    IF k = "class" THEN PyStr(<<"x">>) ELSE PyStr(<<"t", "e", "x", "t">>)

AttrDicts == { [k \in ks |-> CallerValue(k)] : ks \in SUBSET CallerKeys }

Urls == { PyStr(<<"/", "a">>), PyStr(<<"/", "b">>) }

Names == { PyStr(<<"q">>) }

\* The single values handed to a RemoteSelect.
Scalars ==
    { PyNone, PyInt(0), PyInt(12), PyStr(<<>>), PyStr(<<"a">>),
      PyStr(<<"a", ",", "b">>) }

\* The entries of the lists handed to a MultipleRemoteSelect.
Entries == { PyNone, PyInt(12), PyStr(<<>>), PyStr(<<"a", ",", "b">>) }

Lists == { PyList(l) : l \in UNION { [1..n -> Entries] : n \in 0..MaxList } }

ValuesFor(self) == IF is_multiple(self) THEN Lists \cup {PyNone} ELSE Scalars

\* How often p occurs in text, counted without overlap.
RECURSIVE Occurrences(_, _)
Occurrences(text, p) ==
    IF Len(text) < Len(p) THEN 0
    ELSE IF StartsWith(text, p)
         THEN 1 + Occurrences(SubSeq(text, Len(p) + 1, Len(text)), p)
         ELSE Occurrences(Tail(text), p)

\* ------------------------------------------- building and rendering widgets

InitWidgets ==
    /\ original \in AttrDicts
    /\ attrs = original
    /\ widget = NoWidget
    /\ call = "none"
    /\ args = Unset
    /\ result = Unset
    /\ format = <<>>

NewImageInput ==
    /\ \E given \in BOOLEAN :
          LET r == ImageInput_init(given, attrs) IN
          /\ widget' = r.widget
          /\ attrs' = r.attrs
          /\ result' = [exc |-> r.exc]
          /\ args' = [attrs_given |-> given]
    /\ call' = "ImageInput.__init__"
    /\ UNCHANGED <<format, original>>

NewWYSIWYGTextArea ==
    /\ \E given \in BOOLEAN :
          /\ given /\ "class" \in DOMAIN attrs =>
                Occurrences(attrs["class"].s, wysiwyg_class) < MaxBuilds
          /\ LET r == WYSIWYGTextArea_init(given, attrs) IN
             /\ widget' = r.widget
             /\ attrs' = r.attrs
             /\ result' = [exc |-> r.exc]
             /\ args' = [attrs_given |-> given]
    /\ call' = "WYSIWYGTextArea.__init__"
    /\ UNCHANGED <<format, original>>

NewRemoteSelect ==
    /\ \E cls \in RemoteClasses, class_url \in {PyNone, PyStr(<<"/", "a">>)},
          kw_given \in BOOLEAN,
          kw_url \in {PyNone, PyStr(<<"/", "b">>), PyStr(<<>>)},
          attrs_given \in BOOLEAN :
          LET r == RemoteSelect_init(cls, class_url, kw_given, kw_url,
                                     attrs_given, attrs) IN
          /\ kw_given \/ kw_url = PyNone
          /\ widget' = r.widget
          /\ attrs' = r.attrs
          /\ result' = [exc |-> r.exc]
          /\ args' = [ cls |-> cls, class_url |-> class_url,
                       kw_given |-> kw_given, kw_url |-> kw_url,
                       attrs_given |-> attrs_given ]
    /\ call' = "RemoteSelect.__init__"
    /\ UNCHANGED <<format, original>>

\* The form field a widget belongs to sets its is_required.
SetRequired ==
    /\ widget.cls \in RemoteClasses
    /\ \E b \in BOOLEAN :
          /\ widget' = [widget EXCEPT !.is_required = b]
          /\ args' = [is_required |-> b]
    /\ call' = "is_required"
    /\ result' = Unset
    /\ UNCHANGED <<format, attrs, original>>

Render ==
    /\ widget.cls \in RemoteClasses
    /\ \E name \in Names, value \in ValuesFor(widget), attrs_given \in BOOLEAN :
          /\ result' = [exc |-> "",
                        val |-> render(widget, name, value, attrs_given, attrs)]
          /\ args' = [name |-> name, value |-> value, attrs_given |-> attrs_given]
    /\ call' = "render"
    /\ UNCHANGED <<format, widget, attrs, original>>

NextWidgets ==
    \/ NewImageInput
    \/ NewWYSIWYGTextArea
    \/ NewRemoteSelect
    \/ SetRequired
    \/ Render

SpecWidgets == InitWidgets /\ [][NextWidgets]_vars


SpecRemote == InitWidgets /\ [][NewRemoteSelect \/ SetRequired \/ Render]_vars

FormatValue ==
    /\ widget.cls \in RemoteClasses
    /\ \E value \in ValuesFor(widget) :
          /\ result' = [exc |-> "", val |-> format_value(widget, value)]
          /\ args' = [value |-> value, posted |-> FALSE]
    /\ call' = "format_value"
    /\ UNCHANGED <<format, widget, attrs, original>>

\* The form comes back: data holds the text the widget was rendered with
\* under the widget's name, or does not hold the name at all.
ValueFromDatadict ==
    /\ widget.cls \in RemoteClasses
    /\ call = "format_value"
    /\ \E posted \in BOOLEAN :
          /\ result' = [exc |-> "",
                        val |-> value_from_datadict(widget, posted, result.val)]
          /\ args' = [args EXCEPT !.posted = posted]
    /\ call' = "value_from_datadict"
    /\ UNCHANGED <<format, widget, attrs, original>>

SpecValues ==
    InitWidgets /\ [][NewRemoteSelect \/ FormatValue \/ ValueFromDatadict]_vars

\* -------------------------------------------------------- AdvancedSelect

\* The values of the options of a select, and of its disabled_values.
OptionValues ==
    { PyNone, PyInt(1), PyInt(2), PyStr(<<"1">>), PyStr(<<"a">>), PyStr(<<>>) }

Labels == { PyStr(<<"O", "n", "e">>) }

\* AdvancedSelect.__init__(disabled_values=...)
AdvancedSelect_init(disabled_values) ==
    [ cls |-> "AdvancedSelect",
      disabled_values |-> { text_type(v) : v \in disabled_values } ]

\* The option the base Select.create_option builds: its attributes hold
\* 'selected' for a selected option and nothing else.
Select_create_option(name, value, label, selected, index) ==
    [ name |-> name, value |-> value, label |-> label,
      selected |-> selected, index |-> decimal(index),
      attrs |-> IF selected THEN [k \in {"selected"} |-> PyTrue] ELSE EmptyDict ]

\* A create_option that sets 'disabled' on the option, not on its attrs.
create_option_on_option(self, name, value, label, selected, index) ==
    LET option == Select_create_option(name, value, label, selected, index) IN
    IF text_type(value) \in self.disabled_values
    THEN [k \in DOMAIN option \cup {"disabled"} |->
             IF k = "disabled" THEN PyTrue ELSE option[k]]
    ELSE option

\* AdvancedSelect.create_option
create_option(self, name, value, label, selected, index) ==
    LET option == Select_create_option(name, value, label, selected, index) IN
    IF text_type(value) \in self.disabled_values
    THEN [option EXCEPT !.attrs = Update(@, [k \in {"disabled"} |-> PyTrue])]
    ELSE option

InitSelect ==
    /\ widget = NoWidget
    /\ call = "none"
    /\ args = [disabled_values |-> {}]
    /\ result = Unset
    /\ format = <<>>
    /\ attrs = EmptyDict
    /\ original = EmptyDict

NewAdvancedSelect ==
    /\ \E disabled_values \in SUBSET OptionValues :
          /\ Cardinality(disabled_values) <= MaxDisabled
          /\ widget' = AdvancedSelect_init(disabled_values)
          /\ args' = [disabled_values |-> disabled_values]
    /\ call' = "AdvancedSelect.__init__"
    /\ result' = Unset
    /\ UNCHANGED <<format, attrs, original>>

CreateOption ==
    /\ widget.cls = "AdvancedSelect"
    /\ \E name \in Names, value \in OptionValues, label \in Labels,
          selected \in BOOLEAN, index \in 0..1 :
          /\ result' = [exc |-> "",
                        val |-> create_option(widget, name, value, label,
                                              selected, index)]
          /\ args' = [ disabled_values |-> args.disabled_values, name |-> name,
                       value |-> value, label |-> label,
                       selected |-> selected, index |-> index ]
    /\ call' = "create_option"
    /\ UNCHANGED <<format, widget, attrs, original>>

SpecSelect == InitSelect /\ [][NewAdvancedSelect \/ CreateOption]_vars


\* ------------------------------------------- claims about the widgets

\* C2: for a MultipleRemoteSelect and every list of values, format_value
\* followed by value_from_datadict on the posted text gives back the
\* list's entries (as texts) without the falsy ones: the same entries, in
\* the same order, as many.
C2_MultiValueRoundTrip ==
    (/\ call = "value_from_datadict"
     /\ is_multiple(widget)
     /\ args.posted
     /\ args.value.t = "list") =>
       result.val =
          PyList([i \in 1..Len(filter_bool(args.value.l)) |->
                     PyStr(text_type(filter_bool(args.value.l)[i]))])

\* C3: building a RemoteSelect or MultipleRemoteSelect raises ValueError
\* exactly when the effective lookup_url (the keyword argument when given,
\* else the class attribute) is missing; otherwise it succeeds with that
\* lookup_url.  No remote select without a lookup_url exists or is rendered.
C3_MissingLookupUrlFailsFast ==
    /\ widget.cls \in RemoteClasses => widget.lookup_url # PyNone
    /\ call = "RemoteSelect.__init__" =>
          LET effective == IF args.kw_given THEN args.kw_url ELSE args.class_url
          IN IF effective = PyNone
             THEN result.exc = "ValueError" /\ widget = NoWidget
             ELSE /\ result.exc = ""
                  /\ widget.cls = args.cls
                  /\ widget.lookup_url = effective
    /\ call = "render" => result.val["data-ajax-url"] # PyNone

\* A construction refused although the class sets a lookup_url: the keyword
\* argument, given as None, took precedence.
C3_Witness ==
    /\ call = "RemoteSelect.__init__"
    /\ result.exc = "ValueError"
    /\ args.kw_given
    /\ args.class_url # PyNone

\* C5: the widgets leave the caller's attrs dictionary as it was, so a widget
\* built from a dictionary that was used before gets the attributes a widget
\* built from a fresh, equal dictionary gets.
C5_CallerAttrsUntouched ==
    /\ attrs = original
    /\ (call = "ImageInput.__init__" /\ args.attrs_given) =>
          widget.attrs = ImageInput_init(TRUE, original).widget.attrs
    /\ (call = "WYSIWYGTextArea.__init__" /\ args.attrs_given) =>
          widget.attrs = WYSIWYGTextArea_init(TRUE, original).widget.attrs

\* C7: create_option sets 'disabled' to True in the option's attributes
\* exactly when the text of the option's value is the text of one of the
\* disabled values handed to the constructor; any other option is the base
\* Select's option.
C7_DisabledExactlyWhenListed ==
    call = "create_option" =>
       LET option == Select_create_option(args.name, args.value, args.label,
                                          args.selected, args.index)
           listed == \E v \in args.disabled_values :
                        text_type(v) = text_type(args.value)
       IN IF listed
          THEN /\ "disabled" \in DOMAIN result.val.attrs
               /\ result.val.attrs["disabled"] = PyTrue
               /\ result.val =
                     [option EXCEPT !.attrs = result.val.attrs]
               /\ \A k \in DOMAIN option.attrs :
                     result.val.attrs[k] = option.attrs[k]
               /\ DOMAIN result.val.attrs = DOMAIN option.attrs \cup {"disabled"}
          ELSE result.val = option

\* An option disabled although its value is not one of the disabled values
\* as given: the int 1 is listed and the option's value is the text "1".
C7_Witness ==
    /\ call = "create_option"
    /\ args.value = PyStr(<<"1">>)
    /\ args.disabled_values = {PyInt(1)}
    /\ args.selected
    /\ "disabled" \in DOMAIN result.val.attrs

\* C8: whatever attrs the caller passes, the attributes a remote select
\* renders hold type, name, data-ajax-url, data-multiple, data-required and
\* value as the widget sets them, overriding the caller's, and every other
\* attribute of the caller as it was given.
C8_RenderedAttributes ==
    call = "render" =>
       LET out == result.val
           given == IF args.attrs_given THEN attrs ELSE EmptyDict
       IN /\ DOMAIN out = RenderKeys \cup DOMAIN given
          /\ out["type"] = PyStr(hidden)
          /\ out["name"] = args.name
          /\ out["data-ajax-url"] = widget.lookup_url
          /\ out["data-multiple"] =
                IF widget.cls = "MultipleRemoteSelect"
                THEN PyStr(multiple) ELSE PyStr(<<>>)
          /\ out["data-required"] =
                IF widget.is_required THEN PyStr(required) ELSE PyStr(<<>>)
          /\ out["value"] = PyStr(format_value(widget, args.value))
          /\ \A k \in DOMAIN given \ RenderKeys : out[k] = given[k]

\* A required MultipleRemoteSelect rendered with a caller's dictionary that
\* holds a key the widget sets (type) and one it does not (class).
C8_Witness ==
    /\ call = "render"
    /\ args.attrs_given
    /\ {"type", "class"} \subseteq DOMAIN attrs
    /\ widget.cls = "MultipleRemoteSelect"
    /\ widget.is_required
    /\ bool(args.value)

====
